---- MODULE Spec2Model ----
(***************************************************************************)
(* ADB-Insight (DroidMetrics): the channel client (adb::shell and          *)
(* adb::shell_multi of Cpp/src/adb_utils.cpp), the TTL cache and the       *)
(* HTTP handlers (Cpp/src/main.cpp) and the parsers (Cpp/src/parsers.cpp). *)
(*                                                                         *)
(* Texts are sequences of one-character strings.  The specifications:      *)
(*   SpecMulti         one shell_multi call on every channel behaviour     *)
(*   Spec              shell calls of concurrently handled requests        *)
(*   SpecCache         the cached endpoints, one request at a time         *)
(*   SpecCacheOverlap  the cached endpoints on the thread pool             *)
(*   SpecSystem        the composite /system handler                       *)
(*   SpecThermal       parse_thermal_data, one loop pass per step          *)
(*   SpecFreq          the CPU frequency parser and build_cpu_frequency    *)
(*   SpecDf            parse_df_output and build_storage_mounts            *)
(*   SpecDevice        build_device_info on the texts getprop prints       *)
(*   SpecEndpoints     every endpoint: cached, uncached and /system        *)
(***************************************************************************)
EXTENDS Integers, Sequences, FiniteSets, TLC

VARIABLES
    cmds,         \* shell_multi: the requested command list
    texts,        \* the text each command prints on the device
    shape,        \* how the channel output was produced
    chan,         \* the channel's behaviour for the one invocation
    results,      \* the vector shell_multi returns
    mstate,       \* "ready", "returned" or "crashed"
    invocations,  \* number of popen calls made by the shell_multi call
    stores,       \* the indices results[...] was assigned at, in order
    thr,          \* per worker thread: the adb::shell call it is running
    fs,           \* the file at /tmp/adb_cmd_<pid>.sh
    ncalls,       \* number of adb::shell calls started so far
    cache,        \* std::map<std::string, CacheEntry> cache
    now,          \* std::chrono::system_clock::now(), in ticks
    req,          \* per worker thread: the HTTP request it is handling
    nreq,         \* number of requests started so far
    pin,          \* parsers: the input of the call being run
    pout,         \* parsers: the locals and the result of the call
    ppc           \* parsers: "idle", the function running, or "returned"

multiVars == <<cmds, texts, shape, chan, results, mstate, invocations, stores>>

shellVars == <<thr, fs, ncalls>>

cacheVars == <<cache, now, req, nreq>>

parseVars == <<pin, pout, ppc>>

vars == <<multiVars, shellVars, cacheVars, parseVars>>

\* what an adb::shell step leaves alone
nonShellVars == <<multiVars, cacheVars, parseVars>>

\* what the shell_multi call leaves alone
nonMultiVars == <<shellVars, cacheVars, parseVars>>

\* what a request handler step leaves alone
nonCacheVars == <<multiVars, shellVars, parseVars>>

\* what a parser call leaves alone
nonParseVars == <<multiVars, shellVars, cacheVars>>

\* no parser call is running
ParseIdle ==
    /\ pin = <<>>
    /\ pout = <<>>
    /\ ppc = "idle"

-----------------------------------------------------------------------------
(* Characters and texts *)

NL == "\n"

CR == "\r"

SP == " "

TAB == "\t"

EmptyText == <<>>

\* std::string marker = "__ADB_MULTI__"
marker == <<"_", "_", "A", "D", "B", "_", "M", "U", "L", "T", "I", "_", "_">>

IntMax == 2147483647

DigitChars == <<"0", "1", "2", "3", "4", "5", "6", "7", "8", "9">>

IsDigit(c) == \E d \in 1..10 : DigitChars[d] = c

DigitVal(c) == (CHOOSE d \in 1..10 : DigitChars[d] = c) - 1

\* std::isspace in the "C" locale
IsSpace(c) == c \in {SP, TAB, NL, CR, "\f"}

RECURSIVE to_string(_)
\* std::to_string of a non-negative size_t
to_string(i) ==
    IF i < 10 THEN <<DigitChars[i + 1]>>
    ELSE to_string(i \div 10) \o <<DigitChars[(i % 10) + 1]>>

StartsWith(s, p) == Len(s) >= Len(p) /\ SubSeq(s, 1, Len(p)) = p

Drop(s, k) == SubSeq(s, k + 1, Len(s))

RECURSIVE SkipSpace(_)
SkipSpace(s) == IF s # <<>> /\ IsSpace(Head(s)) THEN SkipSpace(Tail(s)) ELSE s

RECURSIVE DigitRun(_)
\* the longest prefix of s made of decimal digits
DigitRun(s) == IF s # <<>> /\ IsDigit(Head(s)) THEN <<Head(s)>> \o DigitRun(Tail(s)) ELSE <<>>

RECURSIVE DigitsValue(_, _)
\* the value of the digits ds after the value acc; -1 once it exceeds IntMax
DigitsValue(ds, acc) ==
    IF ds = <<>> THEN acc
    ELSE IF acc < 0 \/ acc > (IntMax - DigitVal(Head(ds))) \div 10 THEN 0 - 1
    ELSE DigitsValue(Tail(ds), acc * 10 + DigitVal(Head(ds)))

\* std::stoi: leading whitespace, an optional sign, then as many digits as
\* there are; ok = FALSE stands for std::invalid_argument (no digits) and
\* std::out_of_range (the value does not fit an int).
stoi(s) ==
    LET t == SkipSpace(s)
        signed == t # <<>> /\ Head(t) \in {"-", "+"}
        neg == t # <<>> /\ Head(t) = "-"
        ds == DigitRun(IF signed THEN Tail(t) ELSE t)
        mag == DigitsValue(ds, 0)
        v == IF neg THEN 0 - mag ELSE mag
    IN IF ds = <<>> THEN [ok |-> FALSE, val |-> 0]
       ELSE IF mag < 0 THEN [ok |-> FALSE, val |-> 0]
       ELSE [ok |-> TRUE, val |-> v]

RECURSIVE FirstNL(_, _)
\* position of the first newline of s at or after position k, 0 if none
FirstNL(s, k) == IF k > Len(s) THEN 0 ELSE IF s[k] = NL THEN k ELSE FirstNL(s, k + 1)

RECURSIVE getlines(_)
\* while (std::getline(iss, l)) lines.push_back(l): a final piece without
\* a newline is a line, an empty remainder is not.
getlines(s) ==
    IF s = <<>> THEN <<>>
    ELSE LET p == FirstNL(s, 1)
         IN IF p = 0 THEN <<s>>
            ELSE <<SubSeq(s, 1, p - 1)>> \o getlines(Drop(s, p))

-----------------------------------------------------------------------------
(* adb::shell as a function of what the channel does *)

StripChars == {NL, CR, SP}

RECURSIVE StripTrailing(_)
\* while (!result.empty() && (back == '\n' || back == '\r' || back == ' ')) pop_back
StripTrailing(s) ==
    IF s # <<>> /\ s[Len(s)] \in StripChars THEN StripTrailing(SubSeq(s, 1, Len(s) - 1)) ELSE s

\* a popen failure that never throws
popen_failure_silent(throw_on_error) == [threw |-> FALSE, value |-> EmptyText]

\* if (!pipe) { ...; if (throw_on_error) throw ...; return ""; }
popen_failure(throw_on_error) ==
    IF throw_on_error THEN [threw |-> TRUE, value |-> EmptyText]
    ELSE [threw |-> FALSE, value |-> EmptyText]

\* a non-zero status that throws whatever throw_on_error says
shell_finish_strict(raw, status, throw_on_error) ==
    IF status # 0 THEN [threw |-> TRUE, value |-> EmptyText]
    ELSE [threw |-> FALSE, value |-> StripTrailing(raw)]

\* after pclose: if (status != 0 && throw_on_error) throw ...; strip; return
shell_finish(raw, status, throw_on_error) ==
    IF status # 0 /\ throw_on_error THEN [threw |-> TRUE, value |-> EmptyText]
    ELSE [threw |-> FALSE, value |-> StripTrailing(raw)]

\* The value of shell(cmd, throw_on_error) when popen succeeds (invoked) or
\* not, the pipe delivers raw and pclose reports status.
shell_value(invoked, raw, status, throw_on_error) ==
    IF ~invoked THEN popen_failure(throw_on_error)
    ELSE shell_finish(raw, status, throw_on_error)

-----------------------------------------------------------------------------
(* adb::shell_multi *)

\* the device runs "echo <marker><i>; cmds[i]; " for i = 0, 1, ...: each
\* marker line is followed by what the command prints
RECURSIVE combined_output(_, _)
combined_output(ts, i) ==
    IF i > Len(ts) THEN <<>>
    ELSE marker \o to_string(i - 1) \o <<NL>> \o ts[i] \o combined_output(ts, i + 1)

\* if (!buffered.empty() && buffered.back() == '\n') buffered.pop_back()
pop_newline(buffered) ==
    IF buffered # <<>> /\ buffered[Len(buffered)] = NL
    THEN SubSeq(buffered, 1, Len(buffered) - 1)
    ELSE buffered

\* results[current] = buffered: a write outside 0..size-1 is undefined
\* behaviour, recorded in oob and left without effect on the slots in range
store_segment(st) ==
    IF st.current < Len(st.results)
    THEN [st EXCEPT !.results[st.current + 1] = pop_newline(st.buffer),
                    !.stores = Append(st.stores, st.current)]
    ELSE [st EXCEPT !.oob = TRUE, !.stores = Append(st.stores, st.current)]

\* try { current = std::stoi(line.substr(marker.length())); } catch (...) { current++; }
marker_index(line, current) ==
    LET r == stoi(Drop(line, Len(marker)))
    IN IF r.ok THEN r.val ELSE current + 1

\* one iteration of the loop over the lines
demux_line(st, line) ==
    IF StartsWith(line, marker)
    THEN LET flushed == IF st.current >= 0
                        THEN [store_segment(st) EXCEPT !.buffer = <<>>]
                        ELSE st
         IN [flushed EXCEPT !.current = marker_index(line, st.current)]
    ELSE IF st.current >= 0
    THEN [st EXCEPT !.buffer = st.buffer \o line \o <<NL>>]
    ELSE st

RECURSIVE demux_loop(_, _, _)
demux_loop(st, lines, k) ==
    IF k > Len(lines) THEN st ELSE demux_loop(demux_line(st, lines[k]), lines, k + 1)

\* the demultiplexing of output into size slots
demux(output, size) ==
    LET st0 == [current |-> -1, buffer |-> <<>>,
                results |-> [i \in 1..size |-> EmptyText],
                oob |-> FALSE, stores |-> <<>>]
        st1 == demux_loop(st0, getlines(output), 1)
    IN IF st1.current >= 0 THEN store_segment(st1) ELSE st1

\* a shell_multi that sends every command again, one by one, when the
\* batched invocation did not start
shell_multi_run_retry(c, ch) ==
    IF c = <<>>
    THEN [results |-> <<>>, calls |-> 0, oob |-> FALSE, stores |-> <<>>]
    ELSE IF ~ch.invoked
    THEN [results |-> [i \in 1..Len(c) |-> EmptyText], calls |-> 1 + Len(c),
          oob |-> FALSE, stores |-> <<>>]
    ELSE LET d == demux(StripTrailing(ch.raw), Len(c))
         IN [results |-> d.results, calls |-> 1, oob |-> d.oob, stores |-> d.stores]

\* shell_multi on the command list c when the channel behaves as ch:
\* the value returned, the number of popen calls and the stores made
shell_multi_run(c, ch) ==
    IF c = <<>>
    THEN [results |-> <<>>, calls |-> 0, oob |-> FALSE, stores |-> <<>>]
    ELSE LET r == shell_value(ch.invoked, ch.raw, ch.status, FALSE)
         IN IF r.threw
            THEN [results |-> [i \in 1..Len(c) |-> EmptyText], calls |-> 1,
                  oob |-> FALSE, stores |-> <<>>]
            ELSE LET d == demux(r.value, Len(c))
                 IN [results |-> d.results, calls |-> 1, oob |-> d.oob, stores |-> d.stores]

-----------------------------------------------------------------------------
(* The TTL cache of main.cpp and the handlers of the cached endpoints *)

\* the worker threads on which httplib runs the request handlers
Threads == {"t1", "t2"}

\* clock ticks per second: the clock is finer than the seconds of the TTL
TicksPerSecond == 2

CacheKeys ==
    {"device_info", "os_info", "cpu_info", "cpu_governors", "display_info",
     "storage_mounts", "network_info"}

\* the ttl_seconds each handler passes to is_cached_valid
ttl_seconds(key) == IF key \in {"storage_mounts", "network_info"} THEN 30 ELSE 300

NoEntry == [present |-> FALSE, value |-> "", timestamp |-> 0]

\* a conversion to seconds that rounds up instead of truncating
duration_cast_seconds_ceil(d) ==
    IF d >= 0 THEN (d + TicksPerSecond - 1) \div TicksPerSecond
    ELSE 0 - ((0 - d) \div TicksPerSecond)

\* std::chrono::duration_cast<std::chrono::seconds>: truncation toward zero
duration_cast_seconds(d) ==
    IF d >= 0 THEN d \div TicksPerSecond ELSE 0 - ((0 - d) \div TicksPerSecond)

\* a TTL check that still accepts an entry of age exactly ttl_seconds
is_cached_valid_inclusive(c, key, ttl, t) ==
    /\ c[key].present
    /\ duration_cast_seconds(t - c[key].timestamp) <= ttl

is_cached_valid(c, key, ttl, t) ==
    /\ c[key].present
    /\ duration_cast_seconds(t - c[key].timestamp) < ttl

get_cached(c, key) == IF c[key].present THEN c[key].value ELSE ""

set_cached(c, key, value, t) ==
    [c EXCEPT ![key] = [present |-> TRUE, value |-> value, timestamp |-> t]]

\* what the device answers during one build: "up" (every command answers),
\* "down" (no channel invocation succeeds), "junk" (the channel answers, the
\* numeric fields are not numbers)
DeviceStates == {"up", "down", "junk"}

\* the serialized records a device that is up can produce
Records == {"r1", "r2"}

\* the record whose every field is empty or its default
BlankRecord == "blank"

\* build_device_info, build_os_info, build_cpu_info: one shell_multi, which
\* never throws, then std::stoi on a non-empty numeric field
build_multi_stoi(dev, v) ==
    CASE dev = "up" -> [ok |-> TRUE, value |-> v, calls |-> 1]
      [] dev = "down" -> [ok |-> TRUE, value |-> BlankRecord, calls |-> 1]
      [] dev = "junk" -> [ok |-> FALSE, value |-> "", calls |-> 1]

\* build_network_info: one shell_multi and, when the address is empty, one
\* shell inside try/catch
build_network_info(dev, v) ==
    CASE dev = "up" -> [ok |-> TRUE, value |-> v, calls |-> 1]
      [] dev = "down" -> [ok |-> TRUE, value |-> BlankRecord, calls |-> 2]
      [] dev = "junk" -> [ok |-> TRUE, value |-> v, calls |-> 1]

\* build_cpu_governors, build_display_info: two shell calls that throw on
\* failure, then parsing that never throws
build_two_shells(dev, v) ==
    CASE dev = "up" -> [ok |-> TRUE, value |-> v, calls |-> 2]
      [] dev = "down" -> [ok |-> FALSE, value |-> "", calls |-> 1]
      [] dev = "junk" -> [ok |-> TRUE, value |-> BlankRecord, calls |-> 2]

\* build_storage_mounts: one shell call that throws on failure, then
\* parse_df_output, which drops what it cannot parse
build_storage_mounts(dev, v) ==
    CASE dev = "up" -> [ok |-> TRUE, value |-> v, calls |-> 1]
      [] dev = "down" -> [ok |-> FALSE, value |-> "", calls |-> 1]
      [] dev = "junk" -> [ok |-> TRUE, value |-> BlankRecord, calls |-> 1]

\* the builder each cached endpoint calls
build_record(key, dev, v) ==
    CASE key \in {"device_info", "os_info", "cpu_info"} -> build_multi_stoi(dev, v)
      [] key = "network_info" -> build_network_info(dev, v)
      [] key \in {"cpu_governors", "display_info"} -> build_two_shells(dev, v)
      [] key = "storage_mounts" -> build_storage_mounts(dev, v)

MaxRequests == 2

\* the clock readings at which something happens: the start, and just before
\* and exactly one TTL later, for both TTLs
TimePoints ==
    {0, 30 * TicksPerSecond - 1, 30 * TicksPerSecond,
     300 * TicksPerSecond - 1, 300 * TicksPerSecond}

IdleRequest ==
    [pc |-> "idle", key |-> "", hit |-> FALSE, calls |-> 0, built |-> "",
     status |-> 0, body |-> ""]

CacheIdle ==
    /\ cache = [k \in CacheKeys |-> NoEntry]
    /\ now = 0
    /\ req = [t \in Threads |-> IdleRequest]
    /\ nreq = 0

Handling(t) == req[t].pc \in {"hit", "miss", "built"}

\* a TTL check that erases the entry it finds expired
HandlerCheck_erases(t, key) ==
    /\ req[t].pc = "idle"
    /\ nreq < MaxRequests
    /\ nreq' = nreq + 1
    /\ LET valid == is_cached_valid(cache, key, ttl_seconds(key), now)
       IN /\ req' = [req EXCEPT ![t] = [IdleRequest EXCEPT
                         !.pc = IF valid THEN "hit" ELSE "miss",
                         !.key = key, !.hit = valid]]
          /\ cache' = IF valid THEN cache ELSE [cache EXCEPT ![key] = NoEntry]
    /\ UNCHANGED <<now, nonCacheVars>>

\* the handler of a cached endpoint starts: if (is_cached_valid(key, ttl))
HandlerCheck(t, key) ==
    /\ req[t].pc = "idle"
    /\ nreq < MaxRequests
    /\ nreq' = nreq + 1
    /\ LET valid == is_cached_valid(cache, key, ttl_seconds(key), now)
       IN req' = [req EXCEPT ![t] = [IdleRequest EXCEPT
                      !.pc = IF valid THEN "hit" ELSE "miss",
                      !.key = key, !.hit = valid]]
    /\ UNCHANGED <<cache, now, nonCacheVars>>

\* res.set_content(get_cached(key), ...); return;
HandlerGet(t) ==
    /\ req[t].pc = "hit"
    /\ req' = [req EXCEPT ![t].pc = "done", ![t].status = 200,
                          ![t].body = get_cached(cache, req[t].key)]
    /\ UNCHANGED <<cache, now, nreq, nonCacheVars>>

\* auto record = build_...(); json j = record; content = j.dump(2);
HandlerBuild(t, dev, v) ==
    /\ req[t].pc = "miss"
    /\ LET b == build_record(req[t].key, dev, v)
       IN /\ b.ok
          /\ req' = [req EXCEPT ![t].pc = "built", ![t].calls = b.calls,
                                ![t].built = b.value]
    /\ UNCHANGED <<cache, now, nreq, nonCacheVars>>

\* a catch block that caches the error body
HandlerBuildFails_caches_error(t, dev, v) ==
    /\ req[t].pc = "miss"
    /\ LET b == build_record(req[t].key, dev, v)
       IN /\ ~b.ok
          /\ req' = [req EXCEPT ![t].pc = "done", ![t].calls = b.calls,
                                ![t].status = 500, ![t].body = "error"]
    /\ cache' = set_cached(cache, req[t].key, "error", now)
    /\ UNCHANGED <<now, nreq, nonCacheVars>>

\* the builder throws: catch (const std::exception& e) { ... res.status = 500; }
HandlerBuildFails(t, dev, v) ==
    /\ req[t].pc = "miss"
    /\ LET b == build_record(req[t].key, dev, v)
       IN /\ ~b.ok
          /\ req' = [req EXCEPT ![t].pc = "done", ![t].calls = b.calls,
                                ![t].status = 500, ![t].body = "error"]
    /\ UNCHANGED <<cache, now, nreq, nonCacheVars>>

\* set_cached(key, content); res.set_content(content, ...);
HandlerStore(t) ==
    /\ req[t].pc = "built"
    /\ cache' = set_cached(cache, req[t].key, req[t].built, now)
    /\ req' = [req EXCEPT ![t].pc = "done", ![t].status = 200,
                          ![t].body = req[t].built]
    /\ UNCHANGED <<now, nreq, nonCacheVars>>

\* the handler has returned and the thread waits for its next request
HandlerReturn(t) ==
    /\ req[t].pc = "done"
    /\ req' = [req EXCEPT ![t] = IdleRequest]
    /\ UNCHANGED <<cache, now, nreq, nonCacheVars>>

\* no request is being handled: the next one overlaps none
NoRequestOpen == \A u \in Threads : req[u].pc = "idle"

\* the system clock advances
Tick ==
    /\ \E t \in TimePoints : t > now /\ now' = t
    /\ UNCHANGED <<cache, req, nreq, nonCacheVars>>

-----------------------------------------------------------------------------
(* GET /system: the composite snapshot *)

\* the sub-domain builders in the order the /system handler calls them
SystemDomains ==
    <<"device", "os", "cpu", "cpu_freq", "cpu_gov", "cpu_idle", "memory",
      "storage", "mounts", "battery", "power", "thermal", "core_temps",
      "network", "display">>

\* build_cpu_frequency, build_storage_info, build_thermal_info: one shell
\* call that throws on failure, then a throw when nothing could be parsed
build_shell_strict(dev, v) ==
    CASE dev = "up" -> [ok |-> TRUE, value |-> v, calls |-> 1]
      [] dev = "down" -> [ok |-> FALSE, value |-> "", calls |-> 1]
      [] dev = "junk" -> [ok |-> FALSE, value |-> "", calls |-> 1]

\* build_cpu_idle_info, build_memory_info, build_battery_info,
\* build_power_info, build_core_temperatures: one shell call that throws on
\* failure, then parsing that drops or defaults what it cannot read
build_shell_tolerant(dev, v) ==
    CASE dev = "up" -> [ok |-> TRUE, value |-> v, calls |-> 1]
      [] dev = "down" -> [ok |-> FALSE, value |-> "", calls |-> 1]
      [] dev = "junk" -> [ok |-> TRUE, value |-> BlankRecord, calls |-> 1]

\* the builder /system calls for each sub-domain
build_domain(d, dev, v) ==
    CASE d \in {"device", "os", "cpu"} -> build_multi_stoi(dev, v)
      [] d = "network" -> build_network_info(dev, v)
      [] d \in {"cpu_gov", "display"} -> build_two_shells(dev, v)
      [] d = "mounts" -> build_storage_mounts(dev, v)
      [] d \in {"cpu_freq", "storage", "thermal"} -> build_shell_strict(dev, v)
      [] d \in {"cpu_idle", "memory", "battery", "power", "core_temps"} ->
            build_shell_tolerant(dev, v)

\* a /system request: parts are the sub-domains built so far, returned the
\* sub-domains the response body carries
SystemRequest ==
    [pc |-> "system", key |-> "", hit |-> FALSE, calls |-> 0, built |-> "",
     status |-> 0, body |-> "", parts |-> <<>>, returned |-> <<>>]

IsSystemRequest(t) == "parts" \in DOMAIN req[t]

\* the /system handler starts
SystemStart(t) ==
    /\ req[t].pc = "idle"
    /\ nreq < MaxRequests
    /\ nreq' = nreq + 1
    /\ req' = [req EXCEPT ![t] = SystemRequest]
    /\ UNCHANGED <<cache, now, nonCacheVars>>

\* the next build_...() call of the try block returns
SystemBuild(t, dev) ==
    /\ req[t].pc = "system"
    /\ Len(req[t].parts) < Len(SystemDomains)
    /\ LET d == SystemDomains[Len(req[t].parts) + 1]
           b == build_domain(d, dev, "r1")
       IN /\ b.ok
          /\ req' = [req EXCEPT ![t].parts = Append(@, d),
                                ![t].calls = @ + b.calls]
    /\ UNCHANGED <<cache, now, nreq, nonCacheVars>>

\* the next build_...() call throws: the one catch block of the handler
\* answers 500 with the error text
SystemBuildFails(t, dev) ==
    /\ req[t].pc = "system"
    /\ Len(req[t].parts) < Len(SystemDomains)
    /\ LET d == SystemDomains[Len(req[t].parts) + 1]
           b == build_domain(d, dev, "r1")
       IN /\ ~b.ok
          /\ req' = [req EXCEPT ![t].pc = "done", ![t].calls = @ + b.calls,
                                ![t].status = 500, ![t].body = "error",
                                ![t].returned = <<>>]
    /\ UNCHANGED <<cache, now, nreq, nonCacheVars>>

\* res.set_content(system.to_json().dump(2), "application/json");
SystemRespond(t) ==
    /\ req[t].pc = "system"
    /\ Len(req[t].parts) = Len(SystemDomains)
    /\ req' = [req EXCEPT ![t].pc = "done", ![t].status = 200,
                          ![t].body = "system", ![t].returned = req[t].parts]
    /\ UNCHANGED <<cache, now, nreq, nonCacheVars>>

-----------------------------------------------------------------------------
(* The endpoints that have no cache entry *)

PlainEndpoints ==
    {"/cpu/frequency", "/cpu/idle", "/memory", "/storage", "/battery",
     "/power", "/thermal", "/thermal/cores", "/uptime", "/health", "/"}

\* build_uptime_info: one shell call that throws on failure, then a
\* std::stod that throws on a text that is no number
build_uptime_info(dev, v) ==
    CASE dev = "up" -> [ok |-> TRUE, value |-> v, calls |-> 1]
      [] dev = "down" -> [ok |-> FALSE, value |-> "", calls |-> 1]
      [] dev = "junk" -> [ok |-> FALSE, value |-> "", calls |-> 1]

\* the body of the /health handler: adb::devices never throws, and a
\* listing without a line "<serial> device" answers degraded
health_check(dev, v) ==
    [ok |-> TRUE, value |-> IF dev = "up" THEN "healthy" ELSE "degraded", calls |-> 1]

\* the body of the / handler: a fixed document, no channel call
root_document(dev, v) == [ok |-> TRUE, value |-> "root", calls |-> 0]

\* what the handler of each endpoint computes
build_plain(e, dev, v) ==
    CASE e \in {"/cpu/frequency", "/storage", "/thermal"} -> build_shell_strict(dev, v)
      [] e \in {"/cpu/idle", "/memory", "/battery", "/power", "/thermal/cores"} ->
            build_shell_tolerant(dev, v)
      [] e = "/uptime" -> build_uptime_info(dev, v)
      [] e = "/health" -> health_check(dev, v)
      [] e = "/" -> root_document(dev, v)

\* a request to one of these endpoints
PlainRequest(e) ==
    [pc |-> "plain", key |-> "", hit |-> FALSE, calls |-> 0, built |-> "",
     status |-> 0, body |-> "", endpoint |-> e]

IsPlainRequest(t) == "endpoint" \in DOMAIN req[t]

\* the handler starts
PlainStart(t, e) ==
    /\ req[t].pc = "idle"
    /\ nreq < MaxRequests
    /\ nreq' = nreq + 1
    /\ req' = [req EXCEPT ![t] = PlainRequest(e)]
    /\ UNCHANGED <<cache, now, nonCacheVars>>

\* auto x = build_...(); json j = x; res.set_content(j.dump(2), ...);
PlainBuild(t, dev, v) ==
    /\ req[t].pc = "plain"
    /\ LET b == build_plain(req[t].endpoint, dev, v)
       IN /\ b.ok
          /\ req' = [req EXCEPT ![t].pc = "done", ![t].calls = b.calls,
                                ![t].built = b.value, ![t].status = 200,
                                ![t].body = b.value]
    /\ UNCHANGED <<cache, now, nreq, nonCacheVars>>

\* catch (const std::exception& e) { ...; res.status = 500; }
PlainBuildFails(t, dev, v) ==
    /\ req[t].pc = "plain"
    /\ LET b == build_plain(req[t].endpoint, dev, v)
       IN /\ ~b.ok
          /\ req' = [req EXCEPT ![t].pc = "done", ![t].calls = b.calls,
                                ![t].status = 500, ![t].body = "error"]
    /\ UNCHANGED <<cache, now, nreq, nonCacheVars>>

-----------------------------------------------------------------------------
(* adb::shell step by step, run by the worker threads of the HTTP server.
   Every call of the process uses the same path, "/tmp/adb_cmd_" + getpid()
   + ".sh"; fs is the file at that path. *)

MaxCalls == 3

Commands == { <<"l", "s">>, <<"i", "d", SP, "-", "u">> }

\* what the device appends to the first character of a command as its output
Tails == { <<>>, <<NL>>, <<SP, CR, NL, NL>>, <<TAB, NL>> }

\* out << cmd << "\n"; out << "exit\n";
script_of(cmd) == cmd \o <<NL>> \o <<"e", "x", "i", "t", NL>>

NoFile == [exists |-> FALSE, ino |-> 0, content |-> <<>>]

\* std::ofstream out(temp_file): creates the file or truncates the one there
open_trunc(f, id) ==
    IF f.exists THEN [f EXCEPT !.content = <<>>]
    ELSE [exists |-> TRUE, ino |-> id, content |-> <<>>]

\* out.close(): the buffered text is written at offset 0 of the file the
\* stream opened, which is the file at the path only while nobody removed it
write_at_0(f, fd, text) ==
    IF f.exists /\ f.ino = fd
    THEN [f EXCEPT !.content = text \o Drop(f.content, Len(text))]
    ELSE f

RECURSIVE run_lines(_, _, _)
\* the device shell runs the script line by line up to "exit"; a known
\* command prints its first character followed by tail
run_lines(ls, k, tail) ==
    IF k > Len(ls) \/ ls[k] = <<"e", "x", "i", "t">> THEN <<>>
    ELSE (IF ls[k] \in Commands THEN <<ls[k][1]>> \o tail ELSE <<>>)
             \o run_lines(ls, k + 1, tail)

run_script(script, tail) == run_lines(getlines(script), 1, tail)

IdleThread ==
    [pc |-> "idle", id |-> 0, cmd |-> <<>>, throw_on_error |-> FALSE, fd |-> 0,
     created |-> FALSE, invoked |-> FALSE, script |-> <<>>, opened |-> FALSE,
     out |-> <<>>, status |-> 0, result |-> <<>>,
     ret |-> [threw |-> FALSE, value |-> EmptyText]]

ShellIdle ==
    /\ thr = [t \in Threads |-> IdleThread]
    /\ fs = NoFile
    /\ ncalls = 0

\* lines 14-20: a request handler calls shell(cmd, throw_on_error); the
\* stream on the temporary file is opened
ShellOpen(t, c, e) ==
    /\ thr[t].pc \in {"idle", "done"}
    /\ ncalls < MaxCalls
    /\ ncalls' = ncalls + 1
    /\ fs' = open_trunc(fs, ncalls + 1)
    /\ thr' = [thr EXCEPT ![t] = [IdleThread EXCEPT !.pc = "opened", !.id = ncalls + 1,
                                    !.cmd = c, !.throw_on_error = e,
                                    !.fd = fs'.ino, !.created = ~fs.exists]]
    /\ UNCHANGED nonShellVars

\* lines 21-23
ShellWrite(t) ==
    /\ thr[t].pc = "opened"
    /\ fs' = write_at_0(fs, thr[t].fd, script_of(thr[t].cmd))
    /\ thr' = [thr EXCEPT ![t].pc = "written"]
    /\ UNCHANGED <<ncalls, nonShellVars>>

\* a popen failure path that leaves the file behind
PopenFails_keeps_file(t) ==
    /\ thr[t].pc = "written"
    /\ thr' = [thr EXCEPT ![t].pc = "done", ![t].invoked = FALSE,
                          ![t].ret = popen_failure(thr[t].throw_on_error)]
    /\ UNCHANGED <<fs, ncalls, nonShellVars>>

\* lines 27-34: popen returns NULL
PopenFails(t) ==
    /\ thr[t].pc = "written"
    /\ fs' = NoFile
    /\ thr' = [thr EXCEPT ![t].pc = "done", ![t].invoked = FALSE,
                          ![t].ret = popen_failure(thr[t].throw_on_error)]
    /\ UNCHANGED <<ncalls, nonShellVars>>

\* line 27: popen starts "adb shell < temp_file"
PopenStarts(t) ==
    /\ thr[t].pc = "written"
    /\ thr' = [thr EXCEPT ![t].pc = "piped", ![t].invoked = TRUE]
    /\ UNCHANGED <<fs, ncalls, nonShellVars>>

\* the child opens the file for the redirection and adb runs what it reads;
\* without a file the child fails, and adb may fail (dead) whatever it read
ChildRuns(t, tail, st, dead) ==
    /\ thr[t].pc = "piped"
    /\ dead => (st = 1 /\ tail = <<>>)
    /\ thr' = [thr EXCEPT ![t].pc = "ran",
                          ![t].opened = fs.exists,
                          ![t].script = fs.content,
                          ![t].out = IF fs.exists /\ ~dead THEN run_script(fs.content, tail)
                                     ELSE <<>>,
                          ![t].status = IF fs.exists THEN st ELSE 1]
    /\ UNCHANGED <<fs, ncalls, nonShellVars>>

\* lines 36-40: the fgets loop up to end of file, then pclose
ShellReadClose(t) ==
    /\ thr[t].pc = "ran"
    /\ thr' = [thr EXCEPT ![t].pc = "closed", ![t].result = thr[t].out]
    /\ UNCHANGED <<fs, ncalls, nonShellVars>>

\* line 41: std::remove(temp_file.c_str())
ShellRemove(t) ==
    /\ thr[t].pc = "closed"
    /\ fs' = NoFile
    /\ thr' = [thr EXCEPT ![t].pc = "removed"]
    /\ UNCHANGED <<ncalls, nonShellVars>>

\* lines 43-52
ShellFinish(t) ==
    /\ thr[t].pc = "removed"
    /\ thr' = [thr EXCEPT ![t].pc = "done",
                          ![t].ret = shell_finish(thr[t].result, thr[t].status,
                                                  thr[t].throw_on_error)]
    /\ UNCHANGED <<fs, ncalls, nonShellVars>>

MultiIdle ==
    /\ cmds = <<>>
    /\ texts = <<>>
    /\ shape = "none"
    /\ chan = [invoked |-> FALSE, status |-> 0, raw |-> <<>>]
    /\ results = <<>>
    /\ mstate = "idle"
    /\ invocations = 0
    /\ stores = <<>>

Init == ShellIdle /\ MultiIdle /\ CacheIdle /\ ParseIdle

Next ==
    \/ \E t \in Threads, c \in Commands, e \in BOOLEAN : ShellOpen(t, c, e)
    \/ \E t \in Threads : ShellWrite(t)
    \/ \E t \in Threads : PopenFails(t)
    \/ \E t \in Threads : PopenStarts(t)
    \/ \E t \in Threads, tail \in Tails, st \in {0, 1}, dead \in BOOLEAN :
          ChildRuns(t, tail, st, dead)
    \/ \E t \in Threads : ShellReadClose(t)
    \/ \E t \in Threads : ShellRemove(t)
    \/ \E t \in Threads : ShellFinish(t)

Spec == Init /\ [][Next]_vars

InitCache == CacheIdle /\ ShellIdle /\ MultiIdle /\ ParseIdle

NextCache ==
    \/ \E t \in Threads, key \in CacheKeys : NoRequestOpen /\ HandlerCheck(t, key)
    \/ \E t \in Threads : HandlerGet(t)
    \/ \E t \in Threads, dev \in DeviceStates, v \in Records : HandlerBuild(t, dev, v)
    \/ \E t \in Threads, dev \in DeviceStates, v \in Records : HandlerBuildFails(t, dev, v)
    \/ \E t \in Threads : HandlerStore(t)
    \/ \E t \in Threads : HandlerReturn(t)
    \/ Tick

SpecCache == InitCache /\ [][NextCache]_vars

\* what an unsynchronized access to the map can do to it
RaceOutcomes == {"crash", "torn"}

\* Two handlers use the std::map at once and one of them writes it: the map
\* has no lock, so the accesses race.  Either the process dies or the entry
\* being written is left with a torn value.
CacheRace(t, u, outcome) ==
    /\ t # u
    /\ req[t].pc = "built"
    /\ req[u].pc \in {"hit", "built"}
    /\ IF outcome = "crash"
       THEN /\ req' = [x \in Threads |-> [req[x] EXCEPT !.pc = "crashed"]]
            /\ cache' = cache
       ELSE /\ req' = [req EXCEPT ![t].pc = "done", ![t].status = 200,
                                  ![t].body = req[t].built]
            /\ cache' = set_cached(cache, req[t].key, "torn", now)
    /\ UNCHANGED <<now, nreq, nonCacheVars>>

\* the cached endpoints as the thread pool of httplib runs them: a request
\* starts on any idle worker, whatever the other workers are doing
NextCacheOverlap ==
    \/ \E t \in Threads, key \in CacheKeys : HandlerCheck(t, key)
    \/ \E t \in Threads : HandlerGet(t)
    \/ \E t \in Threads, dev \in DeviceStates, v \in Records : HandlerBuild(t, dev, v)
    \/ \E t \in Threads, dev \in DeviceStates, v \in Records : HandlerBuildFails(t, dev, v)
    \/ \E t \in Threads : HandlerStore(t)
    \/ \E t \in Threads : HandlerReturn(t)
    \/ \E t \in Threads, u \in Threads, o \in RaceOutcomes : CacheRace(t, u, o)
    \/ Tick

SpecCacheOverlap == InitCache /\ [][NextCacheOverlap]_vars

\* GET /system requests on the thread pool
NextSystem ==
    \/ \E t \in Threads : SystemStart(t)
    \/ \E t \in Threads, dev \in DeviceStates : SystemBuild(t, dev)
    \/ \E t \in Threads, dev \in DeviceStates : SystemBuildFails(t, dev)
    \/ \E t \in Threads : SystemRespond(t)
    \/ \E t \in Threads : HandlerReturn(t)

SpecSystem == InitCache /\ [][NextSystem]_vars

\* every endpoint of the server: requests to the cached endpoints one
\* after the other, /system and the endpoints without a cache entry at any
\* time
NextEndpoints ==
    \/ \E t \in Threads, key \in CacheKeys : NoRequestOpen /\ HandlerCheck(t, key)
    \/ \E t \in Threads : HandlerGet(t)
    \/ \E t \in Threads, dev \in DeviceStates, v \in Records : HandlerBuild(t, dev, v)
    \/ \E t \in Threads, dev \in DeviceStates, v \in Records : HandlerBuildFails(t, dev, v)
    \/ \E t \in Threads : HandlerStore(t)
    \/ \E t \in Threads : HandlerReturn(t)
    \/ \E t \in Threads, e \in PlainEndpoints : PlainStart(t, e)
    \/ \E t \in Threads, dev \in DeviceStates, v \in Records : PlainBuild(t, dev, v)
    \/ \E t \in Threads, dev \in DeviceStates, v \in Records : PlainBuildFails(t, dev, v)
    \/ \E t \in Threads : SystemStart(t)
    \/ \E t \in Threads, dev \in DeviceStates : SystemBuild(t, dev)
    \/ \E t \in Threads, dev \in DeviceStates : SystemBuildFails(t, dev)
    \/ \E t \in Threads : SystemRespond(t)
    \/ Tick

SpecEndpoints == InitCache /\ [][NextEndpoints]_vars

-----------------------------------------------------------------------------
(* SpecMulti: one shell_multi call, for every command count and channel
   behaviour within the bounds *)

MaxCmds == 3

ManyCmds == 11

MaxLines == 3

\* what one command prints: nothing, one line, two lines, a line and a
\* blank line
TextSet == { <<>>, <<"a", NL>>, <<"a", NL, "b", NL>>, <<"a", NL, NL>> }

\* the lines an arbitrary channel output is made of: marker lines with the
\* indices 0..MaxCmds, with no index, with a negative index, and plain lines
LineSet ==
    { marker \o to_string(i) : i \in 0..MaxCmds }
        \cup { marker, marker \o <<"-", "1">>, <<"a">>, <<>> }

CmdList(n) == [i \in 1..n |-> to_string(i - 1)]

TextLists(n) == IF n <= MaxCmds THEN [1..n -> TextSet] ELSE { [i \in 1..n |-> t] : t \in TextSet }

RECURSIVE JoinLines(_)
JoinLines(ls) == IF ls = <<>> THEN <<>> ELSE Head(ls) \o <<NL>> \o JoinLines(Tail(ls))

LineSeqs == UNION { [1..k -> LineSet] : k \in 0..MaxLines }

InitFull ==
    /\ shape = "full"
    /\ \E n \in 0..MaxCmds :
         /\ cmds = CmdList(n)
         /\ texts \in TextLists(n)
    /\ \/ chan \in [invoked : {TRUE}, status : {0, 1}, raw : {combined_output(texts, 1)}]
       \/ chan = [invoked |-> FALSE, status |-> 0, raw |-> <<>>]

InitTruncated ==
    /\ shape = "truncated"
    /\ \E n \in (1..MaxCmds) \cup {ManyCmds} :
         /\ cmds = CmdList(n)
         /\ texts \in TextLists(n)
    /\ \E cut \in 0..(Len(combined_output(texts, 1)) - 1) :
         chan = [invoked |-> TRUE, status |-> 1,
                 raw |-> SubSeq(combined_output(texts, 1), 1, cut)]

InitArbitrary ==
    /\ shape = "arbitrary"
    /\ texts = <<>>
    /\ \E n \in 0..MaxCmds : cmds = CmdList(n)
    /\ \E ls \in LineSeqs, whole \in BOOLEAN :
         chan = [invoked |-> TRUE, status |-> 0,
                 raw |-> IF whole \/ ls = <<>> THEN JoinLines(ls)
                         ELSE SubSeq(JoinLines(ls), 1, Len(JoinLines(ls)) - 1)]

InitMulti ==
    /\ InitFull \/ InitTruncated \/ InitArbitrary
    /\ ShellIdle
    /\ CacheIdle
    /\ ParseIdle
    /\ results = <<>>
    /\ mstate = "ready"
    /\ invocations = 0
    /\ stores = <<>>

\* the call runs to its return statement
MultiReturn ==
    /\ mstate = "ready"
    /\ LET run == shell_multi_run(cmds, chan)
       IN /\ results' = run.results
          /\ invocations' = run.calls
          /\ stores' = run.stores
    /\ mstate' = "returned"
    /\ UNCHANGED <<cmds, texts, shape, chan, nonMultiVars>>

\* an out-of-range results[current] = ... may also end the process
MultiCrash ==
    /\ mstate = "ready"
    /\ LET run == shell_multi_run(cmds, chan)
       IN /\ run.oob
          /\ invocations' = run.calls
          /\ stores' = run.stores
    /\ results' = <<>>
    /\ mstate' = "crashed"
    /\ UNCHANGED <<cmds, texts, shape, chan, nonMultiVars>>

NextMulti == MultiReturn \/ MultiCrash

SpecMulti == InitMulti /\ [][NextMulti]_vars

-----------------------------------------------------------------------------
(* parsers.cpp.  Numbers read by std::stod are kept in tenths: the texts of
   the model carry at most one decimal. *)

BlankChars == {SP, TAB}

RECURSIVE TrimLeft(_, _)
\* s.erase(0, s.find_first_not_of(chars))
TrimLeft(s, chars) ==
    IF s # <<>> /\ Head(s) \in chars THEN TrimLeft(Tail(s), chars) ELSE s

RECURSIVE TrimRight(_, _)
\* s.erase(s.find_last_not_of(chars) + 1)
TrimRight(s, chars) ==
    IF s # <<>> /\ s[Len(s)] \in chars
    THEN TrimRight(SubSeq(s, 1, Len(s) - 1), chars) ELSE s

Trim(s, chars) == TrimRight(TrimLeft(s, chars), chars)

\* std::stod: leading whitespace, an optional sign, digits with an optional
\* decimal part, and whatever follows is ignored; ok = FALSE stands for
\* std::invalid_argument (no digits).  val is the number in tenths.
stod(s) ==
    LET t == SkipSpace(s)
        signed == t # <<>> /\ Head(t) \in {"-", "+"}
        neg == t # <<>> /\ Head(t) = "-"
        u == IF signed THEN Tail(t) ELSE t
        ip == DigitRun(u)
        rest == Drop(u, Len(ip))
        fp == IF rest # <<>> /\ Head(rest) = "." THEN DigitRun(Tail(rest)) ELSE <<>>
        mag == DigitsValue(ip, 0) * 10 + (IF fp = <<>> THEN 0 ELSE DigitVal(fp[1]))
    IN IF ip = <<>> /\ fp = <<>> THEN [ok |-> FALSE, val |-> 0]
       ELSE [ok |-> TRUE, val |-> IF neg THEN 0 - mag ELSE mag]

\* an empty std::map
EmptyMap == <<>>

\* m[k] = v on a std::map
MapPut(m, k, v) == [x \in (DOMAIN m) \cup {k} |-> IF x = k THEN v ELSE m[x]]

\* m[k] read through operator[]: a missing key reads as the empty string
MapAt(m, k) == IF k \in DOMAIN m THEN m[k] ELSE EmptyText

\* the key=value items of one Temperature{...} group, values trimmed of
\* blanks: temp_data
temp_data(g) == [k \in DOMAIN g |-> Trim(g[k], BlankChars)]

\* One pass of the while (iter != end) loop of parse_thermal_data over the
\* group g.  advance = FALSE is the continue of the catch block, which
\* skips ++iter.
thermal_group(g, temps) ==
    LET td == temp_data(g)
        name == td["mName"]
        value == stod(MapAt(td, "mValue"))
        type == stod(MapAt(td, "mType"))
        status == stod(MapAt(td, "mStatus"))
        e0 == IF name \in DOMAIN temps THEN temps[name] ELSE EmptyMap
        e1 == MapPut(e0, "value", value.val)
        e2 == IF "mType" \in DOMAIN td THEN MapPut(e1, "type", type.val) ELSE e1
        e3 == IF "mStatus" \in DOMAIN td THEN MapPut(e2, "status", status.val) ELSE e2
    IN IF "mName" \notin DOMAIN td THEN [temps |-> temps, advance |-> TRUE]
       ELSE IF ~value.ok THEN [temps |-> temps, advance |-> FALSE]
       ELSE IF "mType" \in DOMAIN td /\ ~type.ok
            THEN [temps |-> MapPut(temps, name, e1), advance |-> FALSE]
       ELSE IF "mStatus" \in DOMAIN td /\ ~status.ok
            THEN [temps |-> MapPut(temps, name, e2), advance |-> FALSE]
       ELSE [temps |-> MapPut(temps, name, e3), advance |-> TRUE]

MaxGroups == 2

\* passes over one group after which the model stops counting
MaxVisits == 2

ItemKeys == {"mName", "mValue", "mType", "mStatus"}

NameTexts == {<<"c", "p", "u", "0">>, <<"b", "a", "t">>}

ValueTexts == {<<"4", "5", ".", "2">>, <<SP, "7">>, <<"h", "o", "t">>}

TypeTexts == {<<"0">>, <<"x">>}

FieldTexts(k) ==
    CASE k = "mName" -> NameTexts
      [] k = "mValue" -> ValueTexts
      [] OTHER -> TypeTexts

\* the Temperature{...} groups the regex iterator can yield
ThermalGroups ==
    UNION {{g \in [K -> NameTexts \cup ValueTexts \cup TypeTexts] :
               \A k \in K : g[k] \in FieldTexts(k)} : K \in SUBSET ItemKeys}

InitThermal == ShellIdle /\ MultiIdle /\ CacheIdle /\ ParseIdle

\* the text to be parsed holds one more Temperature{...} group
ThermalInput ==
    /\ ppc = "idle"
    /\ Len(pin) < MaxGroups
    /\ \E g \in ThermalGroups : pin' = Append(pin, g)
    /\ UNCHANGED <<pout, ppc, nonParseVars>>

\* parse_thermal_data(text) is called
ThermalCall ==
    /\ ppc = "idle"
    /\ pout' = [iter |-> 1, temps |-> EmptyMap, visits |-> 0]
    /\ ppc' = "parse_thermal_data"
    /\ UNCHANGED <<pin, nonParseVars>>

\* one pass of the loop body
ThermalStep ==
    /\ ppc = "parse_thermal_data"
    /\ pout.iter <= Len(pin)
    /\ LET r == thermal_group(pin[pout.iter], pout.temps)
       IN pout' = [iter |-> IF r.advance THEN pout.iter + 1 ELSE pout.iter,
                   temps |-> r.temps,
                   visits |-> IF r.advance THEN 0
                              ELSE IF pout.visits < MaxVisits THEN pout.visits + 1
                              ELSE pout.visits]
    /\ UNCHANGED <<pin, ppc, nonParseVars>>

\* iter == end: return temps
ThermalReturn ==
    /\ ppc = "parse_thermal_data"
    /\ pout.iter > Len(pin)
    /\ ppc' = "returned"
    /\ UNCHANGED <<pin, pout, nonParseVars>>

NextThermal == ThermalInput \/ ThermalCall \/ ThermalStep \/ ThermalReturn

SpecThermal == InitThermal /\ [][NextThermal]_vars

-----------------------------------------------------------------------------
(* parse_cpu_freq and parse_cpu_frequencies_detailed.  A double holding MHz
   to two decimals is kept as an integer number of hundredths of a MHz. *)

WhiteChars == {SP, TAB, NL, CR}

RECURSIVE FindChar(_, _, _)
\* s.find(c) from position k: the position of the first c, 0 for npos
FindChar(s, c, k) ==
    IF k > Len(s) THEN 0 ELSE IF s[k] = c THEN k ELSE FindChar(s, c, k + 1)

RECURSIVE CpuSearch(_, _)
\* std::regex_search(path, match, "cpu(\d+)") from position k: the digits
\* of the leftmost match, the empty text when nothing matches
CpuSearch(path, k) ==
    IF k + 3 > Len(path) THEN <<>>
    ELSE IF SubSeq(path, k, k + 2) = <<"c", "p", "u">> /\ IsDigit(path[k + 3])
         THEN DigitRun(Drop(path, k + 2))
         ELSE CpuSearch(path, k + 1)

\* the body of the getline loop of parse_cpu_freq for one line
cpu_freq_line(freqs, line) ==
    LET pos == FindChar(line, ":", 1)
        path == SubSeq(line, 1, pos - 1)
        value_str == TrimLeft(Drop(line, pos), WhiteChars)
        digits == CpuSearch(path, 1)
        freq == stoi(value_str)
    IN IF pos = 0 \/ digits = <<>> \/ ~freq.ok THEN freqs
       ELSE MapPut(freqs, <<"c", "p", "u">> \o digits, freq.val)

RECURSIVE cpu_freq_lines(_, _)
cpu_freq_lines(freqs, ls) ==
    IF ls = <<>> THEN freqs
    ELSE cpu_freq_lines(cpu_freq_line(freqs, Head(ls)), Tail(ls))

parse_cpu_freq(text) == cpu_freq_lines(EmptyMap, getlines(text))

\* std::round(n / d), d > 0: to the nearest integer, halves away from zero
RoundDiv(n, d) ==
    IF n >= 0 THEN (2 * n + d) \div (2 * d) ELSE 0 - ((d - 2 * n) \div (2 * d))

\* the integer quotient of the mean, which drops what std::round keeps
TruncDiv(n, d) == IF n >= 0 THEN n \div d ELSE 0 - ((0 - n) \div d)

RECURSIVE SumOver(_, _)
\* the sum of f over the keys in ks
SumOver(f, ks) ==
    IF ks = {} THEN 0
    ELSE LET k == CHOOSE x \in ks : TRUE IN f[k] + SumOver(f, ks \ {k})

MinOf(vs) == CHOOSE v \in vs : \A w \in vs : v <= w

MaxOf(vs) == CHOOSE v \in vs : \A w \in vs : v >= w

\* result.avg_mhz = std::round((sum / size / 1000.0) * 100) / 100
avg_mhz_trunc(sum, size) == TruncDiv(sum, size * 10)

avg_mhz(sum, size) == RoundDiv(sum, size * 10)

parse_cpu_frequencies_detailed(text) ==
    LET per_core == parse_cpu_freq(text)
        vals == {per_core[k] : k \in DOMAIN per_core}
    IN IF DOMAIN per_core = {}
       THEN [error |-> TRUE, per_core |-> per_core]
       ELSE [error |-> FALSE, per_core |-> per_core,
             min_khz |-> MinOf(vals), max_khz |-> MaxOf(vals),
             min_mhz |-> RoundDiv(MinOf(vals), 10),
             max_mhz |-> RoundDiv(MaxOf(vals), 10),
             avg_mhz |-> avg_mhz(SumOver(per_core, DOMAIN per_core),
                                 Cardinality(DOMAIN per_core)),
             core_count |-> Cardinality(DOMAIN per_core)]

MaxFreqLines == 3

\* lines of the scaling_cur_freq listing: two cores, a third value for the
\* second core, a path with several cpu<digits> and a value with blanks
\* before and letters after it, a value that is no number, a line without
\* colon, a value too large for an int, an empty line
FreqLines ==
    {<<"s", "/", "c", "p", "u", "0", "/", "f", ":", SP, "1", "8", "0", "0", "0", "0", "0">>,
     <<"s", "/", "c", "p", "u", "1", "/", "f", ":", SP, "2", "4", "0", "0", "0", "0", "0">>,
     <<"s", "/", "c", "p", "u", "1", "/", "f", ":", SP, "2", "4", "0", "0", "0", "0", "1">>,
     <<"c", "p", "u", "/", "c", "p", "u", "0", "/", "c", "p", "u", "7", ":", TAB, SP, "2", "5", "x">>,
     <<"s", "/", "c", "p", "u", "0", "/", "f", ":", SP, "n", "/", "a">>,
     <<"c", "p", "u", "0", SP, "5">>,
     <<"s", "/", "c", "p", "u", "2", "/", "f", ":", SP, "9", "9", "9", "9", "9", "9", "9", "9", "9", "9", "9">>,
     <<>>}

RECURSIVE JoinWithNL(_)
\* the lines as the channel delivers them: a newline between two lines
JoinWithNL(ls) ==
    IF ls = <<>> THEN <<>>
    ELSE IF Len(ls) = 1 THEN Head(ls)
    ELSE Head(ls) \o <<NL>> \o JoinWithNL(Tail(ls))

\* std::all_of(line.begin(), line.end(), ::isdigit)
AllDigits(line) == \A i \in 1..Len(line) : IsDigit(line[i])

\* The try block of build_cpu_frequency that reads cpuinfo_min_freq or
\* cpuinfo_max_freq: the values of the lines made of digits only.  r is
\* what adb::shell did; ok = FALSE when the block was left through
\* catch (...), by the throw of adb::shell or of std::stoi.
limit_freqs(r) ==
    LET ls == getlines(r.value)
        picked == {i \in 1..Len(ls) : ls[i] # <<>> /\ AllDigits(ls[i])}
    IN IF r.threw \/ \E i \in picked : ~stoi(ls[i]).ok
       THEN [ok |-> FALSE, vals |-> {}]
       ELSE [ok |-> TRUE, vals |-> {stoi(ls[i]).val : i \in picked}]

\* build_cpu_frequency: raw, min_raw and max_raw are what the three
\* adb::shell calls did
build_cpu_frequency(raw, min_raw, max_raw) ==
    LET fd == parse_cpu_frequencies_detailed(raw.value)
        mins == limit_freqs(min_raw)
        maxs == limit_freqs(max_raw)
        min_freq == IF mins.ok /\ mins.vals # {} THEN MinOf(mins.vals) ELSE fd.min_khz
        max_freq == IF maxs.ok /\ maxs.vals # {} THEN MaxOf(maxs.vals) ELSE fd.max_khz
    IN IF raw.threw \/ fd.error THEN [ok |-> FALSE]
       ELSE [ok |-> TRUE, per_core |-> fd.per_core,
             min_khz |-> min_freq, max_khz |-> max_freq,
             min_mhz |-> RoundDiv(min_freq, 10), max_mhz |-> RoundDiv(max_freq, 10),
             avg_mhz |-> fd.avg_mhz, core_count |-> fd.core_count]

\* what an adb::shell call of a builder can do: throw, or return a text
ShellThrew == [threw |-> TRUE, value |-> EmptyText]

ShellGave(text) == [threw |-> FALSE, value |-> text]

\* cpuinfo_min_freq / cpuinfo_max_freq listings: two cores, one core, no
\* number
LimitTexts ==
    {<<"3", "0", "0", "0", "0", "0", NL, "1", "8", "0", "0", "0", "0", "0">>,
     <<"3", "0", "0", "0", "0", "0", "0">>,
     <<"n", "/", "a">>}

LimitOutcomes == {ShellThrew} \cup {ShellGave(x) : x \in LimitTexts}

InitFreq == ShellIdle /\ MultiIdle /\ CacheIdle /\ ParseIdle

\* the scaling_cur_freq listing holds one more line
FreqInput ==
    /\ ppc = "idle"
    /\ Len(pin) < MaxFreqLines
    /\ \E line \in FreqLines : pin' = Append(pin, line)
    /\ UNCHANGED <<pout, ppc, nonParseVars>>

\* parse_cpu_frequencies_detailed(text) is called and returns
ParseFreqCall ==
    /\ ppc = "idle"
    /\ pout' = [call |-> "parse_cpu_frequencies_detailed",
                result |-> parse_cpu_frequencies_detailed(JoinWithNL(pin))]
    /\ ppc' = "returned"
    /\ UNCHANGED <<pin, nonParseVars>>

\* build_cpu_frequency() is called on a device that answers the first
\* command with the listing, or not at all, and returns or throws
BuildFreqCall ==
    /\ ppc = "idle"
    /\ \E raw \in {ShellThrew, ShellGave(JoinWithNL(pin))},
          min_raw \in LimitOutcomes, max_raw \in LimitOutcomes :
          pout' = [call |-> "build_cpu_frequency", raw |-> raw,
                   min_raw |-> min_raw, max_raw |-> max_raw,
                   result |-> build_cpu_frequency(raw, min_raw, max_raw)]
    /\ ppc' = "returned"
    /\ UNCHANGED <<pin, nonParseVars>>

NextFreq == FreqInput \/ ParseFreqCall \/ BuildFreqCall

SpecFreq == InitFreq /\ [][NextFreq]_vars

-----------------------------------------------------------------------------
(* parse_df_output and build_storage_mounts *)

RECURSIVE NonSpaceRun(_)
\* the longest prefix of s without whitespace
NonSpaceRun(s) ==
    IF s # <<>> /\ ~IsSpace(Head(s)) THEN <<Head(s)>> \o NonSpaceRun(Tail(s)) ELSE <<>>

RECURSIVE Tokens(_)
\* what repeated line_stream >> token extracts: the whitespace-separated
\* words of s
Tokens(s) ==
    LET t == SkipSpace(s)
        w == NonSpaceRun(t)
    IN IF t = <<>> THEN <<>> ELSE <<w>> \o Tokens(Drop(t, Len(w)))

RECURSIVE JoinWithSpace(_)
\* if (!mountpoint.empty()) mountpoint += " "; mountpoint += mp;
JoinWithSpace(ws) ==
    IF ws = <<>> THEN <<>>
    ELSE IF Len(ws) = 1 THEN Head(ws)
    ELSE Head(ws) \o <<SP>> \o JoinWithSpace(Tail(ws))

\* use_percent_str.substr(0, use_percent_str.find('%'))
BeforePercent(w) ==
    LET p == FindChar(w, "%", 1) IN IF p = 0 THEN w ELSE SubSeq(w, 1, p - 1)

\* the body of the getline loop of parse_df_output for one line after the
\* first: ok = FALSE for a line left through continue
df_line(line) ==
    LET ws == Tokens(line)
        size == stoi(ws[2])
        used == stoi(ws[3])
        avail == stoi(ws[4])
        pct == stoi(BeforePercent(ws[5]))
    IN IF Len(ws) < 5 THEN [ok |-> FALSE]
       ELSE IF ~size.ok \/ ~used.ok \/ ~avail.ok \/ ~pct.ok THEN [ok |-> FALSE]
       ELSE [ok |-> TRUE,
             m |-> [filesystem |-> ws[1], size_kb |-> size.val, used_kb |-> used.val,
                    available_kb |-> avail.val, use_percent |-> pct.val,
                    mountpoint |-> JoinWithSpace(SubSeq(ws, 6, Len(ws)))]]

RECURSIVE df_lines(_)
df_lines(ls) ==
    IF ls = <<>> THEN <<>>
    ELSE (IF df_line(Head(ls)).ok THEN <<df_line(Head(ls)).m>> ELSE <<>>)
             \o df_lines(Tail(ls))

\* a parse that treats the first line as a row
parse_df_output_keeps_header(text) == df_lines(getlines(text))

\* the first line is skipped as the header
parse_df_output(text) ==
    LET ls == getlines(text) IN IF ls = <<>> THEN <<>> ELSE df_lines(Tail(ls))

\* build_storage_mounts as a function of what adb::shell("df -k") did
build_mounts(raw) ==
    IF raw.threw THEN [ok |-> FALSE]
    ELSE [ok |-> TRUE, mounts |-> parse_df_output(raw.value)]

MaxDfLines == 3

\* lines of a df -k listing: the header, the row of the scenario, a
\* mountpoint of two words, percent columns above 100 and below 0, a row
\* of four columns, a size that is no number, a size with a unit and a
\* percent column without %, a row without mountpoint
DfLines ==
    {<<"F", "i", "l", "e", "s", "y", "s", "t", "e", "m", SP, "1", "K",
       "-", "b", "l", "o", "c", "k", "s", SP, "U", "s", "e", "d", SP,
       "A", "v", "a", "i", "l", "a", "b", "l", "e", SP, "U", "s",
       "e", "%", SP, "M", "o", "u", "n", "t", "e", "d", SP, "o", "n">>,
     <<"/", "d", "e", "v", "/", "s", "d", "a", "1", SP, "1", "0", "0",
       "0", "0", "0", "0", SP, "4", "0", "0", "0", "0", "0", SP, "6",
       "0", "0", "0", "0", "0", SP, "4", "0", "%", SP, "/", "d", "a",
       "t", "a">>,
     <<"t", "m", "p", "f", "s", SP, "1", "0", SP, "0", SP, "1", "0", SP,
       "0", "%", SP, "/", "m", "n", "t", "/", "m", "y", SP, SP, "d",
       "i", "s", "k">>,
     <<"/", "d", "e", "v", "/", "x", SP, "1", "0", SP, "2", "0", SP, "5",
       SP, "1", "4", "0", "%", SP, "/", "o", "v", "e", "r">>,
     <<"/", "d", "e", "v", "/", "y", SP, "1", "0", SP, "0", SP, "1", "0",
       SP, "-", "5", "%", SP, "/", "n", "e", "g">>,
     <<"/", "d", "e", "v", "/", "z", SP, "1", "0", SP, "0", SP, "1", "0">>,
     <<"/", "d", "e", "v", "/", "w", SP, "x", SP, "0", SP, "1", "0", SP,
       "1", "%", SP, "/", "w">>,
     <<"/", "d", "e", "v", "/", "v", SP, "1", "K", SP, "0", SP, "1", "0",
       SP, "1", SP, "/", "v">>,
     <<"/", "d", "e", "v", "/", "u", SP, "1", "0", SP, "0", SP, "1", "0",
       SP, "0", "%">>}

InitDf == ShellIdle /\ MultiIdle /\ CacheIdle /\ ParseIdle

\* the df -k listing holds one more line
DfInput ==
    /\ ppc = "idle"
    /\ Len(pin) < MaxDfLines
    /\ \E line \in DfLines : pin' = Append(pin, line)
    /\ UNCHANGED <<pout, ppc, nonParseVars>>

\* parse_df_output(text) is called and returns
ParseDfCall ==
    /\ ppc = "idle"
    /\ pout' = [call |-> "parse_df_output", result |-> parse_df_output(JoinWithNL(pin))]
    /\ ppc' = "returned"
    /\ UNCHANGED <<pin, nonParseVars>>

\* build_storage_mounts() is called on a device that answers df -k with
\* the listing, or not at all
BuildMountsCall ==
    /\ ppc = "idle"
    /\ \E raw \in {ShellThrew, ShellGave(JoinWithNL(pin))} :
          pout' = [call |-> "build_storage_mounts", raw |-> raw,
                   result |-> build_mounts(raw)]
    /\ ppc' = "returned"
    /\ UNCHANGED <<pin, nonParseVars>>

NextDf == DfInput \/ ParseDfCall \/ BuildMountsCall

SpecDf == InitDf /\ [][NextDf]_vars

-----------------------------------------------------------------------------
(* build_device_info as a function of the vector shell_multi returned *)

\* the number of getprop commands build_device_info batches
DeviceProps == 6

\* results[3].empty() ? 0 : std::stoi(results[3]): the exception of
\* std::stoi leaves the builder
sdk_field(text) ==
    IF text = <<>> THEN [ok |-> TRUE, val |-> 0] ELSE stoi(text)

\* build_device_info on the results of its shell_multi call
build_device_info(res) ==
    LET sdk == sdk_field(res[4])
    IN IF ~sdk.ok THEN [ok |-> FALSE]
       ELSE [ok |-> TRUE, model |-> res[1], manufacturer |-> res[2],
             android_version |-> res[3], sdk |-> sdk.val,
             hardware |-> res[5], board |-> res[6]]

\* what a getprop command prints: nothing, a number, a word, a number
\* followed by letters
PropTexts == {<<>>, <<"3", "3">>, <<"u", "n", "k", "n", "o", "w", "n">>, <<"3", "3", "x">>}

InitDevice == ShellIdle /\ MultiIdle /\ CacheIdle /\ ParseIdle

\* shell_multi filled one more slot of results
DeviceInput ==
    /\ ppc = "idle"
    /\ Len(pin) < DeviceProps
    /\ \E text \in PropTexts : pin' = Append(pin, text)
    /\ UNCHANGED <<pout, ppc, nonParseVars>>

\* build_device_info() runs on the results and returns or throws
BuildDeviceCall ==
    /\ ppc = "idle"
    /\ Len(pin) = DeviceProps
    /\ pout' = [call |-> "build_device_info", result |-> build_device_info(pin)]
    /\ ppc' = "returned"
    /\ UNCHANGED <<pin, nonParseVars>>

NextDevice == DeviceInput \/ BuildDeviceCall

SpecDevice == InitDevice /\ [][NextDevice]_vars

-----------------------------------------------------------------------------
(* Claims about shell_multi, checked under SpecMulti *)

\* C1: for every command list and every channel output, marker lines with
\* any index included, the call returns a sequence of exactly len(cmds)
\* entries.
C1_ReturnsOneSlotPerCommand ==
    mstate # "ready" => (mstate = "returned" /\ Len(results) = Len(cmds))

\* t with its final newline removed
WithoutFinalNewline(t) == IF t # <<>> /\ t[Len(t)] = NL THEN SubSeq(t, 1, Len(t) - 1) ELSE t

\* C2: when the output is, for every index in order, the marker line
\* followed by the lines of the known text of that command, every slot is
\* that text with its final newline removed.
C2_RoundTrip ==
    (mstate = "returned" /\ shape = "full" /\ chan.invoked)
        => \A i \in 1..Len(cmds) : results[i] = WithoutFinalNewline(texts[i])

\* the lines of the text the demultiplexer is given
OutputLines == getlines(StripTrailing(chan.raw))

\* the positions of the marker line of slot i (index i - 1) in the output
MarkerLinesOf(i) == { k \in 1..Len(OutputLines) : OutputLines[k] = marker \o to_string(i - 1) }

RECURSIVE FollowingLines(_, _)
\* the lines from position k up to the next marker line or the end, joined
\* by newlines
FollowingLines(ls, k) ==
    IF k > Len(ls) \/ StartsWith(ls[k], marker) THEN <<>>
    ELSE IF k + 1 > Len(ls) \/ StartsWith(ls[k + 1], marker) THEN ls[k]
    ELSE ls[k] \o <<NL>> \o FollowingLines(ls, k + 1)

FirstOf(S) == CHOOSE k \in S : \A j \in S : k <= j

\* C3: on a truncated output, a slot whose marker line never appears is
\* empty and a slot whose marker line appears holds exactly the lines that
\* followed it up to the next marker line or the end of the output.
C3_TruncatedKeepsObserved ==
    (mstate = "returned" /\ shape = "truncated")
        => /\ Len(results) = Len(cmds)
           /\ \A i \in 1..Len(cmds) :
                IF MarkerLinesOf(i) = {} THEN results[i] = EmptyText
                ELSE results[i] = FollowingLines(OutputLines, FirstOf(MarkerLinesOf(i)) + 1)

\* C4: a call with a non-empty list makes exactly one channel invocation
\* and a call with an empty list makes none; when the invocation does not
\* start, every slot is the empty string.
C4_OneInvocationNoRetry ==
    mstate # "ready"
        => /\ invocations = (IF cmds = <<>> THEN 0 ELSE 1)
           /\ (mstate = "returned" /\ ~chan.invoked)
                => results = [i \in 1..Len(cmds) |-> EmptyText]

C4_Witness ==
    /\ mstate = "returned"
    /\ cmds # <<>>
    /\ ~chan.invoked
    /\ invocations = 1
    /\ results = [i \in 1..Len(cmds) |-> EmptyText]

-----------------------------------------------------------------------------
(* Claims about adb::shell, checked under Spec *)

Finished(t) == thr[t].pc = "done"

\* C5 as stated: a call whose channel could not be invoked fails, whatever
\* throw_on_error is.
C5_InvokeFailureAlwaysThrows ==
    \A t \in Threads : (Finished(t) /\ ~thr[t].invoked) => thr[t].ret.threw

\* C5 amended: a call whose channel could not be invoked fails exactly when
\* throw_on_error is true; with throw_on_error false it returns "".
C5_InvokeFailureThrowsIfAsked ==
    \A t \in Threads :
        (Finished(t) /\ ~thr[t].invoked)
            => /\ thr[t].ret.threw <=> thr[t].throw_on_error
               /\ ~thr[t].throw_on_error => thr[t].ret.value = EmptyText

C5_Witness ==
    \E t \in Threads :
        /\ Finished(t)
        /\ ~thr[t].invoked
        /\ thr[t].throw_on_error
        /\ thr[t].ret.threw

\* v is raw without its trailing newlines, carriage returns and spaces
IsStripped(v, raw) ==
    /\ Len(v) <= Len(raw)
    /\ v = SubSeq(raw, 1, Len(v))
    /\ \A k \in (Len(v) + 1)..Len(raw) : raw[k] \in {"\n", "\r", " "}
    /\ v # <<>> => v[Len(v)] \notin {"\n", "\r", " "}

C7_TempFileDeleted ==
    \A t \in Threads : Finished(t) => ~(fs.exists /\ fs.ino = thr[t].id)

C7_Witness ==
    \E t \in Threads :
        /\ Finished(t)
        /\ thr[t].created
        /\ ~thr[t].invoked
        /\ ~fs.exists

\* C8: the channel invocation of a call reads exactly the script that call
\* wrote, also when calls overlap.
C8_ScriptIsPrivate ==
    \A t \in Threads :
        thr[t].pc \in {"ran", "closed", "removed", "done"} /\ thr[t].invoked
            => thr[t].opened /\ thr[t].script = script_of(thr[t].cmd)

InFlight == { t \in Threads : thr[t].pc \in {"piped", "ran"} }

\* C9: at most one channel invocation is in flight at any moment.
C9_ChannelSerialized == Cardinality(InFlight) <= 1

-----------------------------------------------------------------------------
(* Claims about the TTL cache, checked under SpecCache *)

\* the TTL, in seconds, the claims give for each key
StatedTtl(key) ==
    CASE key \in {"device_info", "os_info", "cpu_info", "cpu_governors", "display_info"} -> 300
      [] key \in {"storage_mounts", "network_info"} -> 30

\* an entry for key exists and now - created_at < ttl
EntryFresh(key) ==
    /\ cache[key].present
    /\ now - cache[key].timestamp < StatedTtl(key) * TicksPerSecond

\* what C10 says of one step of the request thread t handles
C10_Step(t) ==
    LET key == req'[t].key
    IN /\ (req[t].pc = "idle" /\ req'[t].pc # "idle")
            => /\ req'[t].pc = "hit" <=> EntryFresh(key)
               /\ req'[t].pc = "miss" <=> ~EntryFresh(key)
       /\ (req[t].pc = "hit" /\ req'[t].pc # "hit")
            => /\ req'[t].pc = "done"
               /\ req'[t].calls = 0
               /\ req'[t].status = 200
               /\ req'[t].body = cache[key].value
               /\ cache' = cache
       /\ (req[t].pc = "miss" /\ req'[t].pc = "built")
            => /\ req'[t].calls >= 1
               /\ cache' = cache
       /\ (req[t].pc = "built" /\ req'[t].pc # "built")
            => /\ req'[t].pc = "done"
               /\ cache'[key] = [present |-> TRUE, value |-> req[t].built, timestamp |-> now]
               /\ req'[t].status = 200
               /\ req'[t].body = req[t].built

\* C10: a request to a cached endpoint is answered from the cache, with no
\* channel invocation, exactly when an entry exists and now - created_at <
\* ttl; otherwise the record is rebuilt through the channel, stored with the
\* current time in place of the old entry, and returned.
C10_HitIffFresh == [][\A t \in Threads : C10_Step(t)]_vars

\* a request found an entry of age exactly ttl and took the rebuild path
C10_Witness ==
    \E t \in Threads :
        /\ req[t].pc = "miss"
        /\ cache[req[t].key].present
        /\ now - cache[req[t].key].timestamp = StatedTtl(req[t].key) * TicksPerSecond

\* the step of thread t is a build (successful or not) for the key it handles
BuildStep(t) == req[t].pc = "miss" /\ req'[t].pc \in {"built", "done"}

\* C11: on non-overlapping requests, two requests within the TTL window of a
\* key build at most once: whenever a build starts for a key that has an
\* entry, at least ttl has elapsed since that entry was stored.
C11_BuildsAtLeastTtlApart ==
    [][\A t \in Threads :
          (BuildStep(t) /\ cache[req[t].key].present)
              => now - cache[req[t].key].timestamp
                     >= StatedTtl(req[t].key) * TicksPerSecond]_vars

\* a second build for a key has been made, one TTL or more after the first
C11_Witness ==
    \E t \in Threads :
        /\ req[t].pc = "built"
        /\ cache[req[t].key].present
        /\ now - cache[req[t].key].timestamp >= StatedTtl(req[t].key) * TicksPerSecond

\* the step of thread t is a build that threw
FailedBuildStep(t) ==
    /\ req[t].pc = "miss"
    /\ req'[t].pc = "done"

\* C12: when the builder of a cached endpoint throws, the cache is left
\* exactly as it was (value and created_at of every entry), no failure
\* marker is stored, and the request is answered with an error.
C12_FailedBuildLeavesCache ==
    [][\A t \in Threads :
          FailedBuildStep(t)
              => /\ cache' = cache
                 /\ req'[t].status = 500
                 /\ req'[t].body = "error"]_vars

\* a build failed while the key had an entry from an earlier build
C12_Witness ==
    \E t \in Threads :
        /\ req[t].pc = "done"
        /\ req[t].status = 500
        /\ cache[req[t].key].present
        /\ cache[req[t].key].value \in Records

\* C13: in every interleaving of concurrent requests for one key, a
\* request's TTL check followed by its read, or by its rebuild and store, is
\* atomic for that key: no other request is between its own check and its
\* own read or store of the same key at the same time.
C13_CheckThenStoreAtomic ==
    \A t \in Threads, u \in Threads :
        (t # u /\ Handling(t) /\ Handling(u)) => req[t].key # req[u].key

\* the step stores the record thread t built, under the key t handles
StoreStep(t, k) ==
    /\ req[t].pc = "built"
    /\ req[t].key = k
    /\ req'[t].pc = "done"
    /\ req'[t].status = 200
    /\ cache'[k] = [present |-> TRUE, value |-> req[t].built, timestamp |-> now]

\* C14: invalidation is lazy only.  No step removes an entry, the cached
\* keys are among the seven per-domain keys, and an entry, expired or not,
\* stays unchanged until a successful build for its key overwrites it.
C14_LazyInvalidationOnly ==
    [][/\ DOMAIN cache' = CacheKeys
       /\ \A k \in CacheKeys :
             /\ cache[k].present => cache'[k].present
             /\ cache'[k] # cache[k] => \E t \in Threads : StoreStep(t, k)]_vars

\* an expired entry is still in the store after a request for its key that
\* found it expired and whose rebuild failed
C14_Witness ==
    \E t \in Threads :
        /\ req[t].pc = "done"
        /\ req[t].status = 500
        /\ cache[req[t].key].present
        /\ ~EntryFresh(req[t].key)

\* the elements of a sequence
Range(q) == {q[i] : i \in 1..Len(q)}

\* C15: in the /system snapshot the failure of one sub-domain build does not
\* abort the composite: every sub-domain that was built successfully is in
\* the response.
C15_SiblingsStillReturned ==
    \A t \in Threads :
        (IsSystemRequest(t) /\ req[t].pc = "done")
            => Range(req[t].parts) \subseteq Range(req[t].returned)

-----------------------------------------------------------------------------
(* Claims about the parsers *)

\* the group names a sensor and carries a value that reads as a number
UsableGroup(g) ==
    /\ "mName" \in DOMAIN g
    /\ "mValue" \in DOMAIN g
    /\ stod(Trim(g["mValue"], BlankChars)).ok

\* the names the claim expects in the result
ExpectedNames ==
    {Trim(pin[i]["mName"], BlankChars) : i \in {j \in 1..Len(pin) : UsableGroup(pin[j])}}

\* one valid group (mName=cpu0, mValue=45.2, mType=0) and one group that
\* lacks mValue
ScenarioInput ==
    /\ Len(pin) = 2
    /\ pin[1] = [k \in {"mName", "mValue", "mType"} |->
                   CASE k = "mName" -> <<"c", "p", "u", "0">>
                     [] k = "mValue" -> <<"4", "5", ".", "2">>
                     [] k = "mType" -> <<"0">>]
    /\ "mValue" \notin DOMAIN pin[2]

\* what the claim says of the returned map
C16_Returned ==
    /\ DOMAIN pout.temps = ExpectedNames
    /\ ScenarioInput =>
          /\ DOMAIN pout.temps = {<<"c", "p", "u", "0">>}
          /\ pout.temps[<<"c", "p", "u", "0">>]["value"] = 452

\* what the claim says of one pass of the loop over the group at iter: the
\* parse moves on to the next group, and a group that is not usable leaves
\* the result as it was
C16_Pass ==
    LET g == pin[pout.iter]
    IN /\ pout'.iter = pout.iter + 1
       /\ UsableGroup(g) => Trim(g["mName"], BlankChars) \in DOMAIN pout'.temps
       /\ ~UsableGroup(g) => pout'.temps = pout.temps

\* C16: parse_thermal_data returns, raising nothing, a result with an entry
\* for N exactly when a group has mName=N and an mValue that parses; groups
\* without mName, without mValue or with a non-numeric mValue contribute
\* nothing, so cpu0/45.2 plus a group lacking mValue yields {cpu0: 45.2}.
C16_ThermalEntries ==
    /\ [](ppc = "returned" => C16_Returned)
    /\ [][(ppc = "parse_thermal_data" /\ ppc' = ppc) => C16_Pass]_vars

\* the core/value pair a line of the listing yields, by the words of the
\* claim: the first cpu<digits> before the first colon, and the integer
\* after it
LinePair(line) ==
    LET pos == FindChar(line, ":", 1)
        digits == CpuSearch(SubSeq(line, 1, pos - 1), 1)
        v == stoi(Drop(line, pos))
    IN IF pos = 0 \/ digits = <<>> \/ ~v.ok THEN [ok |-> FALSE]
       ELSE [ok |-> TRUE, core |-> <<"c", "p", "u">> \o digits, val |-> v.val]

\* the lines of the parsed listing that yield a pair for the core
PairLines(core) ==
    {i \in 1..Len(pin) : LinePair(pin[i]).ok /\ LinePair(pin[i]).core = core}

ExpectedCores == {LinePair(pin[i]).core : i \in {j \in 1..Len(pin) : LinePair(pin[j]).ok}}

ParsedFreq == ppc = "returned" /\ pout.call = "parse_cpu_frequencies_detailed"

\* what C17 says of per_core, min_khz, max_khz, core_count and error
C17_Fields ==
    LET r == pout.result
        vals == {r.per_core[k] : k \in DOMAIN r.per_core}
    IN /\ DOMAIN r.per_core = ExpectedCores
       /\ \A k \in ExpectedCores : r.per_core[k] = LinePair(pin[MaxOf(PairLines(k))]).val
       /\ r.error <=> ExpectedCores = {}
       /\ ~r.error =>
             /\ r.min_khz \in vals /\ \A v \in vals : r.min_khz <= v
             /\ r.max_khz \in vals /\ \A v \in vals : r.max_khz >= v
             /\ r.core_count = Cardinality(ExpectedCores)

\* the build reports an empty parse as a failure
C17_BuildFails ==
    (ppc = "returned" /\ pout.call = "build_cpu_frequency" /\ ~pout.raw.threw)
        => (pout.result.ok <=> ExpectedCores # {})

C20_FreqOrdered ==
    (ppc = "returned" /\ pout.call = "build_cpu_frequency" /\ pout.result.ok)
        => /\ pout.result.min_khz <= pout.result.max_khz
           /\ pout.result.min_mhz <= pout.result.avg_mhz
           /\ pout.result.avg_mhz <= pout.result.max_mhz

\* the rows of the parsed listing that supply the five fixed columns as
\* integers: the usable entries of a df table
UsableRows == {i \in 2..Len(pin) : df_line(pin[i]).ok}

\* C18: an extractor-backed build fails when its whole input yields zero
\* usable entries and succeeds whenever at least one entry is usable;
\* checked on the df mounts build.
C18_EmptyExtractionFails ==
    (ppc = "returned" /\ pout.call = "build_storage_mounts" /\ ~pout.raw.threw)
        => (pout.result.ok <=> UsableRows # {})

\* C19: every percentage field of every produced record lies in [0,100];
\* checked on MountInfo.use_percent.
C19_PercentInRange ==
    (ppc = "returned" /\ pout.call = "build_storage_mounts" /\ pout.result.ok)
        => \A i \in 1..Len(pout.result.mounts) :
              /\ pout.result.mounts[i].use_percent >= 0
              /\ pout.result.mounts[i].use_percent <= 100

\* C21: a numeric field whose text is present but is no number falls back
\* to its zero default and the build still returns the record; checked on
\* the sdk field of build_device_info.
C21_FieldDefaults ==
    (ppc = "returned" /\ pout.call = "build_device_info")
        => /\ pout.result.ok
           /\ ~stoi(pin[4]).ok => pout.result.sdk = 0

\* the token without its trailing %
WithoutTrailingPercent(w) ==
    IF w # <<>> /\ w[Len(w)] = "%" THEN SubSeq(w, 1, Len(w) - 1) ELSE w

\* the line has at least five tokens, and tokens 2-4 and token 5 without
\* its trailing % parse as integers
RowParses(line) ==
    LET ws == Tokens(line)
    IN /\ Len(ws) >= 5
       /\ \A i \in 2..4 : stoi(ws[i]).ok
       /\ stoi(WithoutTrailingPercent(ws[5])).ok

\* the MountInfo the claim gives for a line that parses
RowRecord(line) ==
    LET ws == Tokens(line)
    IN [filesystem |-> ws[1], size_kb |-> stoi(ws[2]).val, used_kb |-> stoi(ws[3]).val,
        available_kb |-> stoi(ws[4]).val,
        use_percent |-> stoi(WithoutTrailingPercent(ws[5])).val,
        mountpoint |-> JoinWithSpace([i \in 1..(Len(ws) - 5) |-> ws[i + 5]])]

RECURSIVE RowRecords(_)
\* one record per parsing line, in input order
RowRecords(ls) ==
    IF ls = <<>> THEN <<>>
    ELSE (IF RowParses(Head(ls)) THEN <<RowRecord(Head(ls))>> ELSE <<>>)
             \o RowRecords(Tail(ls))

DfHeader ==
    <<"F", "i", "l", "e", "s", "y", "s", "t", "e", "m", SP, "1", "K",
      "-", "b", "l", "o", "c", "k", "s", SP, "U", "s", "e", "d", SP,
      "A", "v", "a", "i", "l", "a", "b", "l", "e", SP, "U", "s", "e",
      "%", SP, "M", "o", "u", "n", "t", "e", "d", SP, "o", "n">>

DfScenarioRow ==
    <<"/", "d", "e", "v", "/", "s", "d", "a", "1", SP, "1", "0", "0",
      "0", "0", "0", "0", SP, "4", "0", "0", "0", "0", "0", SP, "6",
      "0", "0", "0", "0", "0", SP, "4", "0", "%", SP, "/", "d", "a",
      "t", "a">>

ParsedDf == ppc = "returned" /\ pout.call = "parse_df_output"

\* C22: parse_df_output discards the first line and emits, in input order,
\* one MountInfo for each remaining line with at least five tokens whose
\* tokens 2-4 and token 5 (without its trailing %) parse as integers, the
\* mountpoint being the remaining tokens joined with single spaces; other
\* lines are dropped.  The header and the scenario row yield one record
\* with size_kb=1000000, used_kb=400000, available_kb=600000,
\* use_percent=40, mountpoint="/data".
C22_DfRows ==
    ParsedDf =>
        /\ pout.result = (IF pin = <<>> THEN <<>> ELSE RowRecords(Tail(pin)))
        /\ pin = <<DfHeader, DfScenarioRow>> =>
              pout.result = <<[filesystem |-> <<"/", "d", "e", "v", "/", "s", "d", "a", "1">>,
                               size_kb |-> 1000000, used_kb |-> 400000,
                               available_kb |-> 600000, use_percent |-> 40,
                               mountpoint |-> <<"/", "d", "a", "t", "a">>]>>

\* the scenario listing, followed by a row that is dropped, was parsed
C22_Witness ==
    /\ ParsedDf
    /\ Len(pin) = 3
    /\ pin[1] = DfHeader /\ pin[2] = DfScenarioRow
    /\ ~RowParses(pin[3])
    /\ Len(pout.result) = 1

\* C23: parse_thermal_data terminates on every finite input and visits each
\* Temperature{...} group exactly once, also when a group carries mName but
\* has a missing or non-numeric mValue, mType or mStatus: no pass of the
\* loop is ever made over a group that a pass was already made over.
C23_EachGroupOnce == ppc = "parse_thermal_data" => pout.visits = 0

-----------------------------------------------------------------------------
(* Claims about the segment indices of adb::shell_multi, checked under
   SpecMulti *)

RECURSIVE OpenedSegments(_, _, _)
\* the segments the marker lines from position k on open, by the words of
\* the claim: the parsed index, else the index of the previous segment
\* plus one, prev being -1 when no marker line has been seen
OpenedSegments(ls, k, prev) ==
    IF k > Len(ls) THEN <<>>
    ELSE IF StartsWith(ls[k], marker)
    THEN LET t == stoi(Drop(ls[k], Len(marker)))
             idx == IF t.ok THEN t.val ELSE prev + 1
         IN <<[index |-> idx, at |-> k]>> \o OpenedSegments(ls, k + 1, idx)
    ELSE OpenedSegments(ls, k + 1, prev)

CollectsLines(seg) == seg.index >= 0

\* the segments that collect lines, in the order they are opened
CollectingSegments == SelectSeq(OpenedSegments(OutputLines, 1, 0 - 1), CollectsLines)

Demultiplexed == mstate # "ready" /\ chan.invoked /\ cmds # <<>>

C25_StoresInRange ==
    mstate # "ready" => \A j \in 1..Len(stores) : stores[j] \in 0..(Len(cmds) - 1)

-----------------------------------------------------------------------------
(* Claims about what the endpoints do to the cache *)

\* the keys of the cached endpoints built with shell_multi: /device, /os,
\* /cpu, /network
ShellMultiKeys == {"device_info", "os_info", "cpu_info", "network_info"}

\* thread t holds the all-empty record, built from a batched invocation
\* that failed entirely
BuiltFromFailedBatch(t) ==
    /\ req[t].pc = "built"
    /\ req[t].key \in ShellMultiKeys
    /\ req[t].built = BlankRecord

\* C26: for /device, /os, /cpu and /network a build whose batched channel
\* invocation failed entirely stores no cache entry: the key's prior entry
\* is unchanged, so the next request goes to the channel again and is not
\* served an all-empty record for the TTL.
C26_FailedBatchNotCached ==
    [][\A t \in Threads :
          BuiltFromFailedBatch(t) => cache'[req[t].key] = cache[req[t].key]]_vars

\* the key of the cached endpoint whose request thread t is handling in
\* this step, the empty text for every other endpoint
OwnKey(t) == IF req[t].pc = "idle" THEN req'[t].key ELSE req[t].key

\* a step of the request of thread t changes at most the entry of its own
\* key, and no entry at all when its endpoint is not a cached one
C27_Step(t) ==
    req'[t] # req[t]
        => IF OwnKey(t) \in CacheKeys
           THEN \A k \in CacheKeys \ {OwnKey(t)} : cache'[k] = cache[k]
           ELSE cache' = cache

\* a /system request that has ended has built every sub-domain, each with
\* at least one channel call
C27_SystemRebuildsAll ==
    \A t \in Threads :
        (IsSystemRequest(t) /\ req[t].pc = "done")
            => /\ req[t].parts = SystemDomains
               /\ req[t].calls >= Len(SystemDomains)

\* C27: a request to a cached endpoint changes at most the cache entry of
\* its own key; a request to any other endpoint (/cpu/frequency, /cpu/idle,
\* /memory, /storage, /battery, /power, /thermal, /thermal/cores, /uptime,
\* /health, / and /system) leaves the value and created_at of every entry
\* unchanged; and /system always rebuilds every sub-domain through the
\* channel.
C27_FrameEffect ==
    /\ [][\A t \in Threads : C27_Step(t)]_vars
    /\ []C27_SystemRebuildsAll

====
